---- MODULE Spec2Model ----
(***************************************************************************)
(* Yield curve simulation (src/app.py): simulate_yield_curve, the forward  *)
(* transform, and reverse_engineer_factors, the recovery of the scenario   *)
(* parameters from two curves.                                             *)
(*                                                                         *)
(* Numbers.  A Python float is modelled as a record: a finite value        *)
(* [k |-> "fin", v |-> n] stands for n * 0.25e-8 (n an integer), and       *)
(* NaN, PosInf, NegInf are the three non-finite floats.  Arithmetic is     *)
(* exact on the finite values (binary representation error of floats is    *)
(* not modelled) and follows IEEE 754 on the non-finite ones.  round(x, n) *)
(* is round-half-to-even on the decimal value.  Year fractions are counted *)
(* in quarters of a year, the grid's finest step.                          *)
(*                                                                         *)
(* Dictionaries.  A curve is a function from the tenors it holds to        *)
(* rates; it is iterated in the order of the tenor grid, the order in      *)
(* which the application builds every curve (app.py:161-175, 194-196).     *)
(***************************************************************************)
EXTENDS Integers, Sequences, FiniteSets, TLC

\* units of 0.25e-8 in 1e-8: the grain of round(change, 8)
E8 == 4
\* units of 0.25e-8 in 1e-6: the grain of round(new_rate, 6)
Micro == 400
\* quarters in a year: '3M': 0.25
YearUnit == 4

Fin(n) == [k |-> "fin", v |-> n]
NaN == [k |-> "nan", v |-> 0]
PosInf == [k |-> "pinf", v |-> 0]
NegInf == [k |-> "ninf", v |-> 0]

IsFinite(a) == a.k = "fin"

\* float negation
Neg(a) ==
  CASE a.k = "fin" -> Fin(0 - a.v)
    [] a.k = "pinf" -> NegInf
    [] a.k = "ninf" -> PosInf
    [] OTHER -> NaN

\* float addition: inf + (-inf) is nan
Add(a, b) ==
  CASE a.k = "nan" \/ b.k = "nan" -> NaN
    [] a.k = "fin" /\ b.k = "fin" -> Fin(a.v + b.v)
    [] a.k = "fin" -> b
    [] b.k = "fin" -> a
    [] a.k = b.k -> a
    [] OTHER -> NaN

\* float subtraction
Sub(a, b) == Add(a, Neg(b))

\* a < b on floats: every comparison with nan is false
Lt(a, b) ==
  CASE a.k = "nan" \/ b.k = "nan" -> FALSE
    [] a.k = "fin" /\ b.k = "fin" -> a.v < b.v
    [] a.k = "ninf" -> b.k # "ninf"
    [] b.k = "pinf" -> a.k # "pinf"
    [] OTHER -> FALSE

\* a == b on floats: nan equals nothing, itself included
FloatEq(a, b) == a.k # "nan" /\ b.k # "nan" /\ a = b

\* Python max(a, b): the first argument unless the second is greater
PyMax(a, b) == IF Lt(a, b) THEN b ELSE a

\* Python min(a, b): the first argument unless the second is smaller
PyMin(a, b) == IF Lt(b, a) THEN b ELSE a

\* delta_years * factor, delta_years given in quarters (every factor of the
\* model is a multiple of 1e-8, so the product is exact)
Times(dq, f) ==
  CASE f.k = "nan" -> NaN
    [] f.k = "fin" -> Fin((dq * f.v) \div YearUnit)
    [] dq = 0 -> NaN
    [] dq > 0 -> f
    [] OTHER -> Neg(f)

\* n rounded to the nearest multiple of g, ties to the even multiple
RoundHalfEven(n, g) ==
  LET q == n \div g
      r == n % g
  IN  IF 2 * r < g THEN q * g
      ELSE IF 2 * r > g THEN (q + 1) * g
      ELSE IF q % 2 = 0 THEN q * g ELSE (q + 1) * g

\* round(x, 6)
Round6(a) == IF a.k = "fin" THEN Fin(RoundHalfEven(a.v, Micro)) ELSE a

\* round(x, 8)
Round8(a) == IF a.k = "fin" THEN Fin(RoundHalfEven(a.v, E8)) ELSE a

(***************************************************************************)
(* The tenor grid.                                                         *)
(***************************************************************************)
TenorOrder == <<"3M", "6M", "1Y", "2Y", "3Y", "4Y", "5Y", "7Y">>

Tenors == {TenorOrder[i] : i \in 1..Len(TenorOrder)}

\* year fraction of a tenor, in quarters
tenor_to_years ==
  [t \in Tenors |->
     CASE t = "3M" -> 1 [] t = "6M" -> 2 [] t = "1Y" -> 4 [] t = "2Y" -> 8
       [] t = "3Y" -> 12 [] t = "4Y" -> 16 [] t = "5Y" -> 20 [] OTHER -> 28]

\* the tenors of a curve in its iteration order
Keys(curve) == SelectSeq(TenorOrder, LAMBDA t : t \in DOMAIN curve)

default_base_curve ==
  [t \in Tenors |->
     CASE t = "3M" -> Fin(30000 * Micro) [] t = "6M" -> Fin(31000 * Micro)
       [] t = "1Y" -> Fin(32000 * Micro) [] t = "2Y" -> Fin(34000 * Micro)
       [] t = "3Y" -> Fin(36000 * Micro) [] t = "4Y" -> Fin(38000 * Micro)
       [] t = "5Y" -> Fin(41000 * Micro) [] OTHER -> Fin(45000 * Micro)]

(***************************************************************************)
(* simulate_yield_curve                                                    *)
(***************************************************************************)
NoCurve == [t \in {} |-> NaN]

\* mutant: the pivot rate is left unshifted
PivotNewRateUnshifted(pivot_rate, shift) == pivot_rate

\* tenor == pivot_tenor: new_rate = pivot_rate + shift_value
PivotNewRate(pivot_rate, shift) == Add(pivot_rate, shift)

\* mutant: the short end cap taken as a ceiling, like the long end cap
ShortEndNewRateCeiling(original_rate, dq, shift, factor, cap) ==
  Add(original_rate, PyMin(Add(shift, Times(dq, factor)), cap))

\* t_year < pivot_year: the raw change floored by the short end cap
ShortEndNewRate(original_rate, dq, shift, factor, cap) ==
  LET raw_change == Add(shift, Times(dq, factor))
      capped_change == PyMax(raw_change, cap)
  IN  Add(original_rate, capped_change)

\* mutant: the long end cap applied with its sign flipped
LongEndNewRateNegatedCap(original_rate, dq, shift, factor, cap) ==
  Add(original_rate, PyMin(Add(shift, Times(dq, factor)), Neg(cap)))

\* otherwise: the raw change ceilinged by the long end cap
LongEndNewRate(original_rate, dq, shift, factor, cap) ==
  LET raw_change == Add(shift, Times(dq, factor))
      capped_change == PyMin(raw_change, cap)
  IN  Add(original_rate, capped_change)

\* mutant: every change is added to the pivot rate, not to the tenor's own
NewRateOnPivotRate(base, pivot, tenor, shift, sf, lf, sc, lc) ==
  LET delta_years == tenor_to_years[tenor] - tenor_to_years[pivot]
  IN  IF tenor = pivot THEN PivotNewRate(base[pivot], shift)
      ELSE IF delta_years < 0
        THEN ShortEndNewRate(base[pivot], delta_years, shift, sf, sc)
        ELSE LongEndNewRate(base[pivot], delta_years, shift, lf, lc)

\* the new rate of one tenor, before rounding
NewRate(base, pivot, tenor, shift, sf, lf, sc, lc) ==
  LET pivot_year == tenor_to_years[pivot]
      t_year == tenor_to_years[tenor]
      delta_years == t_year - pivot_year
  IN  IF tenor = pivot THEN PivotNewRate(base[pivot], shift)
      ELSE IF t_year < pivot_year
        THEN ShortEndNewRate(base[tenor], delta_years, shift, sf, sc)
        ELSE LongEndNewRate(base[tenor], delta_years, shift, lf, lc)

\* the call's outcome: the curve returned, or the exception raised
simulate_yield_curve(base, pivot, shift, sf, lf, sc, lc) ==
  IF pivot \notin DOMAIN base
    THEN [status |-> "KeyError", curve |-> NoCurve]
    ELSE [status |-> "ok",
          curve |-> [t \in DOMAIN base |->
                       Round6(NewRate(base, pivot, t, shift, sf, lf, sc, lc))]]

(***************************************************************************)
(* reverse_engineer_factors                                                *)
(***************************************************************************)
\* the tenors of base_curve before the pivot (t_year < pivot_year), in order
ShortTenors(base, pivot) ==
  SelectSeq(Keys(base),
            LAMBDA t : t # pivot /\ tenor_to_years[t] < tenor_to_years[pivot])

\* the other tenors of base_curve but the pivot, in order
LongTenors(base, pivot) ==
  SelectSeq(Keys(base),
            LAMBDA t : t # pivot /\ ~(tenor_to_years[t] < tenor_to_years[pivot]))

\* delta_years of each tenor of a side (short_x, long_x)
DeltaYears(side, pivot) ==
  [i \in 1..Len(side) |-> tenor_to_years[side[i]] - tenor_to_years[pivot]]

\* implied_change of each tenor of a side (short_y, long_y)
ImpliedChanges(side, base, sim, pivot) ==
  LET base_pivot_rate == base[pivot]
      shift_value == Sub(sim[pivot], base_pivot_rate)
  IN  [i \in 1..Len(side) |->
         Sub(sim[side[i]], Add(base_pivot_rate, shift_value))]

RECURSIVE SumSeq(_)
SumSeq(s) == IF s = <<>> THEN 0 ELSE Head(s) + SumSeq(Tail(s))

\* LinearRegression().fit(x, y).coef_[0], the least-squares slope per year,
\* then round(slope, 6).  With c[i] = n*x[i] - sum(x) the slope per quarter is
\* sum(c[i]*y[i]) / sum(c[i]*x[i]); y is split into whole 1e-6 steps and a rest
\* so that no sum leaves the machine integers.  A single point has no slope:
\* the centred x is zero and the least-norm solution is 0.
RoundedSlope(xs, ys) ==
  LET n == Len(xs)
      sx == SumSeq(xs)
      c == [i \in 1..n |-> n * xs[i] - sx]
      den == SumSeq([i \in 1..n |-> c[i] * xs[i]])
      nh == SumSeq([i \in 1..n |-> c[i] * (ys[i].v \div Micro)])
      nl == SumSeq([i \in 1..n |-> c[i] * (ys[i].v % Micro)])
      q0 == (YearUnit * nh) \div den
      r0 == (YearUnit * nh) % den
      m == Micro * r0 + YearUnit * nl
      q == q0 + (m \div (Micro * den))
      r == m % (Micro * den)
  IN  IF den = 0 THEN Fin(0)
      ELSE IF 2 * r < Micro * den THEN Fin(q * Micro)
      ELSE IF 2 * r > Micro * den THEN Fin((q + 1) * Micro)
      ELSE IF q % 2 = 0 THEN Fin(q * Micro) ELSE Fin((q + 1) * Micro)

\* fit() validates its input: no sample at all, or a nan or an infinity in
\* y, raises ValueError
FitRaises(xs, ys) == Len(xs) = 0 \/ \E i \in 1..Len(ys) : ~IsFinite(ys[i])

\* mutant: a side is fitted even when it is empty
SideRaisesUnguarded(xs, ys) == FitRaises(xs, ys)

\* LinearRegression().fit(x, y) if x else None: an empty side is not fitted
SideRaises(xs, ys) == Len(xs) # 0 /\ FitRaises(xs, ys)

\* the factor of a side as returned: no model and 0.0 for an empty side
SideFactor(xs, ys) == IF Len(xs) = 0 THEN Fin(0) ELSE RoundedSlope(xs, ys)

\* short_changes[round(change, 8)] += 1 on a dictionary kept as the sequence
\* of its items in insertion order (a nan is a key of its own every time)
Bump(d, key) ==
  IF \E i \in 1..Len(d) : FloatEq(d[i].val, key)
    THEN [i \in 1..Len(d) |->
            IF FloatEq(d[i].val, key)
              THEN [val |-> d[i].val, count |-> d[i].count + 1] ELSE d[i]]
    ELSE Append(d, [val |-> key, count |-> 1])

RECURSIVE CountChanges(_, _)
CountChanges(changes, d) ==
  IF changes = <<>> THEN d
  ELSE CountChanges(Tail(changes), Bump(d, Round8(Head(changes))))

\* mutant: the last repeated value, not the first
LastRepeated(d, default) ==
  LET hits == {i \in 1..Len(d) : d[i].count > 1}
  IN  IF hits = {} THEN default
      ELSE d[CHOOSE i \in hits : \A j \in hits : i >= j].val

\* next((val for val, count in d.items() if count > 1), default)
FirstRepeated(d, default) ==
  LET hits == {i \in 1..Len(d) : d[i].count > 1}
  IN  IF hits = {} THEN default
      ELSE d[CHOOSE i \in hits : \A j \in hits : i <= j].val

\* actual_change of each tenor of a side
ActualChanges(side, base, sim, pivot) ==
  [i \in 1..Len(side) |-> Sub(sim[side[i]], base[pivot])]

\* the cap of a side before the result record rounds it
EstimateCap(side, base, sim, pivot, default) ==
  FirstRepeated(CountChanges(ActualChanges(side, base, sim, pivot), <<>>), default)

NoFactors ==
  [pivot_tenor |-> "none", shift_value |-> NaN, short_end_factor |-> NaN,
   long_end_factor |-> NaN, short_end_cap |-> NaN, long_end_cap |-> NaN]

NoEstimate == [short_end_cap |-> NaN, long_end_cap |-> NaN]

\* the call's outcome: the record returned, or the exception raised; caps
\* holds short_end_cap and long_end_cap as estimated, before the record
reverse_engineer_factors(base, sim, pivot) ==
  IF pivot \notin DOMAIN base \/ pivot \notin DOMAIN sim
       \/ \E t \in DOMAIN base : t \notin DOMAIN sim
    THEN [status |-> "KeyError", value |-> NoFactors, caps |-> NoEstimate]
    ELSE
      LET short == ShortTenors(base, pivot)
          long == LongTenors(base, pivot)
          short_y == ImpliedChanges(short, base, sim, pivot)
          long_y == ImpliedChanges(long, base, sim, pivot)
          short_cap == EstimateCap(short, base, sim, pivot, NegInf)
          long_cap == EstimateCap(long, base, sim, pivot, PosInf)
      IN  IF SideRaises(DeltaYears(short, pivot), short_y)
               \/ SideRaises(DeltaYears(long, pivot), long_y)
            THEN [status |-> "ValueError", value |-> NoFactors,
                  caps |-> NoEstimate]
            ELSE [status |-> "ok",
                  value |->
                    [pivot_tenor |-> pivot,
                     shift_value |-> Round6(Sub(sim[pivot], base[pivot])),
                     short_end_factor |->
                       SideFactor(DeltaYears(short, pivot), short_y),
                     long_end_factor |->
                       SideFactor(DeltaYears(long, pivot), long_y),
                     short_end_cap |-> Round6(short_cap),
                     long_end_cap |-> Round6(long_cap)],
                  caps |-> [short_end_cap |-> short_cap,
                            long_end_cap |-> long_cap]]

(***************************************************************************)
(* The callers: the arguments a call is made with, and the two modes of    *)
(* the application.                                                        *)
(***************************************************************************)
\* a base rate is moved off the 1e-6 grid by 1..MaxTicks units of 0.25e-8
MaxTicks == 2
\* at most MaxMarked tenors of a two-level curve hold its second level
MaxMarked == 2

\* base with the rate of one tenor replaced
WithRate(curve, tenor, rate) ==
  [t \in DOMAIN curve |-> IF t = tenor THEN rate ELSE curve[t]]

\* base without one tenor
WithoutTenor(curve, tenor) == [t \in DOMAIN curve \ {tenor} |-> curve[t]]

FlatCurve == [t \in Tenors |-> Fin(0)]

BaseCurves ==
  {default_base_curve, FlatCurve}
    \cup {WithRate(default_base_curve, t, Add(default_base_curve[t], Fin(j))) :
            t \in Tenors, j \in 1..MaxTicks}
    \cup {WithoutTenor(default_base_curve, t) : t \in Tenors}
    \cup {WithRate(default_base_curve, t, x) :
            t \in Tenors, x \in {NaN, PosInf, NegInf}}

\* shift 0.001 is the form's default; -0.0000005 is half a rounding step
Shifts == {Fin(0), Fin(1000 * Micro), Fin(0 - (Micro \div 2))}

\* 0.002 and 0.003 are the form's defaults; 0.000002 a year is half a
\* rounding step a quarter
ShortFactors == {Fin(0), Fin(2000 * Micro), Fin(2 * Micro)}

LongFactors == {Fin(0), Fin(3000 * Micro), Fin(0 - 2 * Micro)}

\* 0.0 and 0.0015 are the form's defaults; the infinities cap nothing
ShortCaps == {NegInf, Fin(0)}

LongCaps == {PosInf, Fin(1500 * Micro)}

\* value=custom_base[tenor] + 0.001, the simulated yields the form starts with
DefaultSimCurve(base) == [t \in DOMAIN base |-> Add(base[t], Fin(1000 * Micro))]

\* pairs of levels, in units of 0.25e-8: apart after round(., 8), together
\* after it, and both half way between two 1e-8 steps
LevelPairs == {<<0, E8>>, <<0, 1>>, <<2, 6>>, <<-2, 2>>}

TwoLevelCurve(pair, marked) ==
  [t \in Tenors |-> IF t \in marked THEN Fin(pair[2]) ELSE Fin(pair[1])]

SimCurves(base) ==
  {DefaultSimCurve(base)}
    \cup {WithoutTenor(DefaultSimCurve(base), t) : t \in DOMAIN base}
    \cup {TwoLevelCurve(p, m) :
            p \in LevelPairs,
            m \in {s \in SUBSET Tenors : Cardinality(s) <= MaxMarked}}

NoSimulation == [status |-> "none", curve |-> NoCurve]

NoRecovery == [status |-> "none", value |-> NoFactors, caps |-> NoEstimate]

VARIABLES option, base_curve, pivot_tenor, shift_value, short_end_factor,
          long_end_factor, short_end_cap, long_end_cap, sim_curve,
          simulated, results, pc

vars == <<option, base_curve, pivot_tenor, shift_value, short_end_factor,
          long_end_factor, short_end_cap, long_end_cap, sim_curve,
          simulated, results, pc>>

\* mode "Simulate Curve": a base curve, a pivot and the five parameters
InitSimulate ==
  /\ option = "Simulate Curve"
  /\ base_curve \in BaseCurves
  /\ pivot_tenor \in Tenors
  /\ shift_value \in Shifts
  /\ short_end_factor \in ShortFactors
  /\ long_end_factor \in LongFactors
  /\ short_end_cap \in ShortCaps
  /\ long_end_cap \in LongCaps
  /\ sim_curve = NoCurve

\* mode "Reverse Engineer Factors": a base curve, a pivot and a second curve
InitReverse ==
  /\ option = "Reverse Engineer Factors"
  /\ base_curve \in BaseCurves
  /\ pivot_tenor \in Tenors
  /\ shift_value = Fin(1000 * Micro)
  /\ short_end_factor = Fin(2000 * Micro)
  /\ long_end_factor = Fin(3000 * Micro)
  /\ short_end_cap = Fin(0)
  /\ long_end_cap = Fin(1500 * Micro)
  /\ sim_curve \in SimCurves(base_curve)

Init ==
  /\ InitSimulate \/ InitReverse
  /\ simulated = NoSimulation
  /\ results = NoRecovery
  /\ pc = "input"

\* st.button("Simulate"): simulated = simulate_yield_curve(custom_base, ...)
Simulate ==
  /\ option = "Simulate Curve"
  /\ pc = "input"
  /\ simulated' = simulate_yield_curve(base_curve, pivot_tenor, shift_value,
                                       short_end_factor, long_end_factor,
                                       short_end_cap, long_end_cap)
  /\ pc' = "simulated"
  /\ UNCHANGED <<option, base_curve, pivot_tenor, shift_value,
                 short_end_factor, long_end_factor, short_end_cap,
                 long_end_cap, sim_curve, results>>

\* st.button("Reverse Engineer"): reverse_engineer_factors(custom_base,
\* sim_curve, pivot_tenor)
ReverseEngineer ==
  /\ option = "Reverse Engineer Factors"
  /\ pc = "input"
  /\ results' = reverse_engineer_factors(base_curve, sim_curve, pivot_tenor)
  /\ pc' = "recovered"
  /\ UNCHANGED <<option, base_curve, pivot_tenor, shift_value,
                 short_end_factor, long_end_factor, short_end_cap,
                 long_end_cap, sim_curve, simulated>>

\* the round trip: reverse_engineer_factors on the curve that
\* simulate_yield_curve returned for the same base curve and pivot
RoundTrip ==
  /\ option = "Simulate Curve"
  /\ pc = "simulated"
  /\ simulated.status = "ok"
  /\ sim_curve' = simulated.curve
  /\ results' = reverse_engineer_factors(base_curve, simulated.curve,
                                         pivot_tenor)
  /\ pc' = "recovered"
  /\ UNCHANGED <<option, base_curve, pivot_tenor, shift_value,
                 short_end_factor, long_end_factor, short_end_cap,
                 long_end_cap, simulated>>

Next == Simulate \/ ReverseEngineer \/ RoundTrip

Spec == Init /\ [][Next]_vars

(***************************************************************************)
(* What the properties are stated with: the real numbers the finite floats *)
(* stand for, and the states a call has returned in.                       *)
(***************************************************************************)
Abs(n) == IF n < 0 THEN 0 - n ELSE n

\* m is the multiple of g nearest to n, the even one of two equally near
IsNearest(m, n, g) ==
  /\ m % g = 0
  /\ 2 * Abs(m - n) <= g
  /\ 2 * Abs(m - n) = g => (m \div g) % 2 = 0

\* a curve over the whole grid with real rates
FullGrid(curve) ==
  DOMAIN curve = Tenors /\ \A t \in Tenors : IsFinite(curve[t])

IsShort(t) == tenor_to_years[t] < tenor_to_years[pivot_tenor]

IsLong(t) == tenor_to_years[t] > tenor_to_years[pivot_tenor]

\* shift + (ty - py) * factor as a real number, in units of 0.25e-8
RawChange(t, factor) ==
  shift_value.v
    + ((tenor_to_years[t] - tenor_to_years[pivot_tenor]) * factor.v) \div YearUnit

\* max(raw, cap) of real numbers, -inf being below all of them
Floored(raw, cap) == IF cap.k = "fin" /\ cap.v > raw THEN cap.v ELSE raw

\* min(raw, cap) of real numbers, +inf being above all of them
Ceilinged(raw, cap) == IF cap.k = "fin" /\ cap.v < raw THEN cap.v ELSE raw

Simulated == pc # "input" /\ option = "Simulate Curve" /\ simulated.status = "ok"

Recovered == pc = "recovered" /\ results.status = "ok"

DefaultScenario ==
  /\ base_curve = default_base_curve
  /\ pivot_tenor = "2Y"
  /\ shift_value = Fin(1000 * Micro)
  /\ short_end_factor = Fin(2000 * Micro)
  /\ long_end_factor = Fin(3000 * Micro)
  /\ short_end_cap = Fin(0)
  /\ long_end_cap = Fin(1500 * Micro)

Uncapped == short_end_cap = NegInf /\ long_end_cap = PosInf

(***************************************************************************)
(* C3.  Asymmetric capping: every non-pivot rate simulate_yield_curve      *)
(* returns is base[t] + max(shift + (ty - py) * short_end_factor,          *)
(* short_end_cap) before the pivot and base[t] + min(shift + (ty - py) *   *)
(* long_end_factor, long_end_cap) after it, rounded to 6 decimals; the     *)
(* default base curve with pivot 2Y, shift 0.001, factors 0.002 / 0.003    *)
(* and caps 0.0 / 0.0015 gives 2Y = 0.035, 1Y = 0.032 and 7Y = 0.0465.     *)
(***************************************************************************)
AsymmetricCapping ==
  Simulated =>
    /\ \A t \in DOMAIN base_curve \ {pivot_tenor} :
         IsFinite(base_curve[t]) =>
           /\ IsFinite(simulated.curve[t])
           /\ IsShort(t) =>
                IsNearest(simulated.curve[t].v,
                          base_curve[t].v
                            + Floored(RawChange(t, short_end_factor),
                                      short_end_cap),
                          Micro)
           /\ IsLong(t) =>
                IsNearest(simulated.curve[t].v,
                          base_curve[t].v
                            + Ceilinged(RawChange(t, long_end_factor),
                                        long_end_cap),
                          Micro)
    /\ DefaultScenario =>
         /\ simulated.curve["2Y"] = Fin(35000 * Micro)
         /\ simulated.curve["1Y"] = Fin(32000 * Micro)
         /\ simulated.curve["7Y"] = Fin(46500 * Micro)

\* the concrete scenario has been simulated: 1Y sits on the floor, 7Y on the
\* ceiling, and 3Y would have risen by 0.004 without the ceiling
AsymmetricCappingWitness ==
  /\ pc = "simulated"
  /\ simulated.status = "ok"
  /\ DefaultScenario
  /\ RawChange("1Y", short_end_factor) < short_end_cap.v
  /\ RawChange("3Y", long_end_factor) > long_end_cap.v
  /\ simulated.curve["3Y"] = Fin(37500 * Micro)

(***************************************************************************)
(* C4.  Pivot exactness: the pivot rate simulate_yield_curve returns is    *)
(* base[pivot] + shift_value rounded to 6 decimals, whatever the factors   *)
(* and the caps are.                                                       *)
(***************************************************************************)
PivotExactness ==
  Simulated =>
    /\ IsFinite(base_curve[pivot_tenor]) =>
         /\ IsFinite(simulated.curve[pivot_tenor])
         /\ IsNearest(simulated.curve[pivot_tenor].v,
                      base_curve[pivot_tenor].v + shift_value.v, Micro)
    /\ \A sf \in ShortFactors, lf \in LongFactors,
          sc \in ShortCaps, lc \in LongCaps :
         simulate_yield_curve(base_curve, pivot_tenor, shift_value,
                              sf, lf, sc, lc).curve[pivot_tenor]
           = simulated.curve[pivot_tenor]

\* a pivot rate half a step off the grid has been rounded (to the even side)
\* while every other tenor was capped
PivotExactnessWitness ==
  /\ pc = "simulated"
  /\ simulated.status = "ok"
  /\ IsFinite(base_curve[pivot_tenor])
  /\ 2 * Abs(simulated.curve[pivot_tenor].v
               - (base_curve[pivot_tenor].v + shift_value.v)) = Micro
  /\ short_end_cap = Fin(0)
  /\ long_end_cap = Fin(1500 * Micro)

(***************************************************************************)
(* C5.  Cap monotonicity: with the other arguments fixed, a lower          *)
(* short_end_cap raises no short-end rate and changes no pivot or long-end *)
(* rate; a higher long_end_cap lowers no long-end rate and changes no      *)
(* pivot or short-end rate.                                                *)
(***************************************************************************)
OtherCaps ==
  {NegInf, Fin(0 - 1000 * Micro), Fin(0 - 1), Fin(0), Fin(Micro \div 2),
   Fin(1500 * Micro), Fin(4000 * Micro), PosInf}

Leq(a, b) == a = b \/ Lt(a, b)

WithShortCap(cap) ==
  simulate_yield_curve(base_curve, pivot_tenor, shift_value, short_end_factor,
                       long_end_factor, cap, long_end_cap).curve

WithLongCap(cap) ==
  simulate_yield_curve(base_curve, pivot_tenor, shift_value, short_end_factor,
                       long_end_factor, short_end_cap, cap).curve

CapMonotonicity ==
  Simulated =>
    \A cap \in OtherCaps, t \in DOMAIN base_curve :
      IsFinite(base_curve[t]) /\ IsFinite(base_curve[pivot_tenor]) =>
        /\ Leq(cap, short_end_cap) =>
             IF IsShort(t)
               THEN Leq(WithShortCap(cap)[t], simulated.curve[t])
               ELSE WithShortCap(cap)[t] = simulated.curve[t]
        /\ Leq(long_end_cap, cap) =>
             IF IsLong(t)
               THEN Leq(simulated.curve[t], WithLongCap(cap)[t])
               ELSE WithLongCap(cap)[t] = simulated.curve[t]

\* a binding floor and a binding ceiling: a lower floor gives a strictly lower
\* short-end rate and a higher ceiling a strictly higher long-end rate
CapMonotonicityWitness ==
  /\ pc = "simulated"
  /\ simulated.status = "ok"
  /\ FullGrid(base_curve)
  /\ \E cap \in OtherCaps, t \in Tenors :
       /\ IsShort(t)
       /\ Lt(cap, short_end_cap)
       /\ Lt(WithShortCap(cap)[t], simulated.curve[t])
  /\ \E cap \in OtherCaps, t \in Tenors :
       /\ IsLong(t)
       /\ Lt(long_end_cap, cap)
       /\ Lt(simulated.curve[t], WithLongCap(cap)[t])

(***************************************************************************)
(* C6.  Identity: with shift 0, factors 0 and caps -inf / +inf             *)
(* simulate_yield_curve returns, for a base curve over the full grid, a    *)
(* curve over the same tenors holding every base rate rounded to 6         *)
(* decimals: the base rate itself when it has at most 6 decimals.          *)
(***************************************************************************)
IdentityArguments ==
  /\ shift_value = Fin(0)
  /\ short_end_factor = Fin(0)
  /\ long_end_factor = Fin(0)
  /\ Uncapped

Identity ==
  pc # "input" /\ option = "Simulate Curve" /\ IdentityArguments
    /\ FullGrid(base_curve) =>
      /\ simulated.status = "ok"
      /\ DOMAIN simulated.curve = DOMAIN base_curve
      /\ \A t \in Tenors :
           /\ IsFinite(simulated.curve[t])
           /\ IsNearest(simulated.curve[t].v, base_curve[t].v, Micro)
           /\ base_curve[t].v % Micro = 0 => simulated.curve[t] = base_curve[t]

\* the identity arguments on a curve with one rate off the 1e-6 grid: that
\* rate comes back rounded, the pivot and the others unchanged
IdentityWitness ==
  /\ pc = "simulated"
  /\ IdentityArguments
  /\ FullGrid(base_curve)
  /\ simulated.status = "ok"
  /\ \E t \in Tenors \ {pivot_tenor} : simulated.curve[t] # base_curve[t]
  /\ simulated.curve[pivot_tenor] = base_curve[pivot_tenor]

(***************************************************************************)
(* C7.  Cap estimation: with actualChange(t) = simulated[t] - base[pivot]  *)
(* rounded to 8 decimals, reverse_engineer_factors takes as short_end_cap  *)
(* the first value, in grid order of the short-end tenors, that occurs     *)
(* more than once among them, and -inf when none does; long_end_cap is the *)
(* same among the long-end tenors, with +inf; a value on both sides only   *)
(* is no repeat.  The record returns each cap rounded to 6 decimals.       *)
(***************************************************************************)
\* the tenors of the base curve on one side of the pivot, in grid order
SideOf(short) ==
  SelectSeq(TenorOrder,
            LAMBDA t : /\ t \in DOMAIN base_curve
                       /\ IF short THEN IsShort(t) ELSE IsLong(t))

\* actualChange(t) rounded to 8 decimals
RoundedChange(t) ==
  LET x == Sub(sim_curve[t], base_curve[pivot_tenor])
  IN  IF IsFinite(x)
        THEN Fin(CHOOSE m \in (x.v - E8)..(x.v + E8) : IsNearest(m, x.v, E8))
        ELSE x

\* the first value of a side that another tenor of the side repeats
ExpectedCap(side, default) ==
  LET rep == {i \in 1..Len(side) :
                /\ RoundedChange(side[i]) # NaN
                /\ \E j \in 1..Len(side) :
                     j # i /\ RoundedChange(side[j]) = RoundedChange(side[i])}
  IN  IF rep = {} THEN default
      ELSE RoundedChange(side[CHOOSE i \in rep : \A j \in rep : i <= j])

\* x as the record returns it: rounded to 6 decimals
ReturnedAs(r, x) ==
  IF IsFinite(x) THEN IsFinite(r) /\ IsNearest(r.v, x.v, Micro) ELSE r = x

CapEstimation ==
  Recovered =>
    /\ results.caps.short_end_cap = ExpectedCap(SideOf(TRUE), NegInf)
    /\ results.caps.long_end_cap = ExpectedCap(SideOf(FALSE), PosInf)
    /\ ReturnedAs(results.value.short_end_cap, results.caps.short_end_cap)
    /\ ReturnedAs(results.value.long_end_cap, results.caps.long_end_cap)

\* two values repeat before the pivot and the one met first is the cap,
\* though the other is the first to be met twice; after the pivot nothing
\* repeats, though the only tenor there holds a value met before the pivot
CapEstimationWitness ==
  /\ Recovered
  /\ option = "Reverse Engineer Factors"
  /\ pivot_tenor = "5Y"
  /\ FullGrid(base_curve)
  /\ FullGrid(sim_curve)
  /\ RoundedChange("3M") = RoundedChange("2Y")
  /\ RoundedChange("6M") = RoundedChange("1Y")
  /\ RoundedChange("6M") # RoundedChange("3M")
  /\ results.caps.short_end_cap = RoundedChange("3M")
  /\ RoundedChange("7Y") = RoundedChange("6M")
  /\ results.caps.long_end_cap = PosInf

(***************************************************************************)
(* C8.  Empty segment: for two full-grid curves, reverse_engineer_factors  *)
(* with pivot 3M returns short_end_factor 0.0 and short_end_cap -inf, and  *)
(* with pivot 7Y returns long_end_factor 0.0 and long_end_cap +inf; in     *)
(* both cases it returns a record and does not fail.                       *)
(***************************************************************************)
EmptySegment ==
  pc = "recovered" /\ FullGrid(base_curve) /\ FullGrid(sim_curve) =>
    /\ pivot_tenor = "3M" =>
         /\ results.status = "ok"
         /\ results.value.pivot_tenor = "3M"
         /\ results.value.short_end_factor = Fin(0)
         /\ results.value.short_end_cap = NegInf
         /\ IsFinite(results.value.shift_value)
         /\ IsFinite(results.value.long_end_factor)
    /\ pivot_tenor = "7Y" =>
         /\ results.status = "ok"
         /\ results.value.pivot_tenor = "7Y"
         /\ results.value.long_end_factor = Fin(0)
         /\ results.value.long_end_cap = PosInf
         /\ IsFinite(results.value.shift_value)
         /\ IsFinite(results.value.short_end_factor)

\* pivot 3M: nothing before the pivot, a fitted slope and a detected cap
\* after it
EmptySegmentWitness ==
  /\ pc = "recovered"
  /\ FullGrid(base_curve)
  /\ FullGrid(sim_curve)
  /\ pivot_tenor = "3M"
  /\ results.status = "ok"
  /\ results.value.short_end_factor = Fin(0)
  /\ results.value.long_end_factor # Fin(0)
  /\ IsFinite(results.value.long_end_cap)

(***************************************************************************)
(* C1.  Round trip without caps: for a base curve over the full grid, a    *)
(* pivot with at least 2 tenors on each side and caps -inf / +inf,         *)
(* reverse_engineer_factors on the simulated curve returns the shift and   *)
(* the two factors the curve was simulated with, within 1e-6, and the caps *)
(* -inf and +inf.                                                          *)
(***************************************************************************)
TwoOnEachSide ==
  /\ Cardinality({t \in Tenors : IsShort(t)}) >= 2
  /\ Cardinality({t \in Tenors : IsLong(t)}) >= 2

Within(r, x) == IsFinite(r) /\ Abs(r.v - x.v) <= Micro

RoundTripRecovers ==
  pc = "recovered" /\ option = "Simulate Curve" /\ FullGrid(base_curve)
    /\ Uncapped /\ TwoOnEachSide =>
      /\ results.status = "ok"
      /\ Within(results.value.shift_value, shift_value)
      /\ Within(results.value.short_end_factor, short_end_factor)
      /\ Within(results.value.long_end_factor, long_end_factor)
      /\ results.value.short_end_cap = NegInf
      /\ results.value.long_end_cap = PosInf

(***************************************************************************)
(* C2.  Grid totality: simulate_yield_curve fails with a missing-tenor     *)
(* error when base_curve omits a grid tenor, and reverse_engineer_factors  *)
(* fails with one when base_curve or simulated_curve omits a grid tenor;   *)
(* no result is returned.                                                  *)
(***************************************************************************)
MissingTenorRejected ==
  /\ pc # "input" /\ option = "Simulate Curve" /\ DOMAIN base_curve # Tenors
       => simulated.status = "KeyError"
  /\ pc = "recovered" /\ option = "Reverse Engineer Factors"
       /\ (DOMAIN base_curve # Tenors \/ DOMAIN sim_curve # Tenors)
       => results.status = "KeyError"

(***************************************************************************)
(* C9.  Invalid input: when a base-curve rate is nan or an infinity,       *)
(* simulate_yield_curve and reverse_engineer_factors fail before computing *)
(* anything and return no curve and no record.                             *)
(***************************************************************************)
HasNonFiniteRate(curve) == \E t \in DOMAIN curve : ~IsFinite(curve[t])

NonFiniteRejected ==
  /\ pc # "input" /\ option = "Simulate Curve" /\ HasNonFiniteRate(base_curve)
       => simulated.status # "ok"
  /\ pc = "recovered" /\ option = "Reverse Engineer Factors"
       /\ HasNonFiniteRate(base_curve)
       => results.status # "ok"

(***************************************************************************)
(* C10.  Capping signature: when simulate_yield_curve clips two or more    *)
(* tenors on one side of the pivot to that side's cap, those tenors have   *)
(* the same rounded actualChange in reverse_engineer_factors on the        *)
(* simulated curve, and the cap of that side comes back finite.            *)
(***************************************************************************)
ClippedShort ==
  {t \in Tenors : /\ IsShort(t)
                  /\ IsFinite(short_end_cap)
                  /\ RawChange(t, short_end_factor) < short_end_cap.v}

ClippedLong ==
  {t \in Tenors : /\ IsLong(t)
                  /\ IsFinite(long_end_cap)
                  /\ RawChange(t, long_end_factor) > long_end_cap.v}

CappingSignature ==
  pc = "recovered" /\ option = "Simulate Curve" /\ FullGrid(base_curve) =>
    /\ Cardinality(ClippedShort) >= 2 =>
         /\ \A t, u \in ClippedShort : RoundedChange(t) = RoundedChange(u)
         /\ results.status = "ok"
         /\ IsFinite(results.value.short_end_cap)
    /\ Cardinality(ClippedLong) >= 2 =>
         /\ \A t, u \in ClippedLong : RoundedChange(t) = RoundedChange(u)
         /\ results.status = "ok"
         /\ IsFinite(results.value.long_end_cap)

====
